---- MODULE Spec2Model ----
(***************************************************************************)
(* State-machine model of the Home component of app/page.tsx: the catalog  *)
(* loader (useEffect / fetchPokemon), the search filter (filteredPokemon)  *)
(* and the selection state (selectedPokemon), with the handlers of the     *)
(* rendered tree.                                                          *)
(*                                                                         *)
(* Strings that the filter inspects (names, type labels, the query) are    *)
(* sequences of one-character strings, so that toLowerCase, toUpperCase,   *)
(* toString and includes are computed character by character.              *)
(***************************************************************************)
EXTENDS Integers, Sequences, FiniteSets, TLC

VARIABLES
    pokemon,          \* useState<Pokemon[]>([])            (line 16)
    search,           \* useState('')                        (line 17)
    loading,          \* useState(true)                      (line 18)
    selectedPokemon,  \* useState<Pokemon | null>(null)      (line 19)
    pc,               \* position of fetchPokemon: "mount", "fetchList", "jsonList", "all", "done"
    list,             \* the list request: "idle", "fetch", "json", "fulfilled", "rejected"
    refs,             \* data.results, the references of the list response
    status,           \* per reference, the promise of the map callback of line 28:
                      \* "fetch", "json", "fulfilled", "rejected"
    values,           \* the positional result array of Promise.all
    arrival,          \* history: the indices of the fulfilled promises, in completion order
    errorLog,         \* number of console.error calls       (line 45)
    listRequests,     \* number of fetches of the list endpoint (line 24)
    pokemonWrites,    \* number of setPokemon calls          (line 42)
    prevSelected      \* history: selectedPokemon before the last click that set it

vars == <<pokemon, search, loading, selectedPokemon, pc, list, refs, status, values,
          arrival, errorLog, listRequests, pokemonWrites, prevSelected>>

\* ------------------------------------------------------------------ bounds
MaxRefs == 3
MaxQueryLen == 2

\* ------------------------------------------------------------- JS values
\* null (and the not-yet-filled slot of the Promise.all array)
Null == [null |-> TRUE]

\* a JSON string value (so that it compares with null)
Str(s) == [str |-> s]

\* ------------------------------------------------- String.prototype methods
UpperAZ == <<"A","B","C","D","E","F","G","H","I","J","K","L","M",
             "N","O","P","Q","R","S","T","U","V","W","X","Y","Z">>
LowerAZ == <<"a","b","c","d","e","f","g","h","i","j","k","l","m",
             "n","o","p","q","r","s","t","u","v","w","x","y","z">>

\* A code unit outside ASCII is written by its code point: "U+00DF" is the
\* sharp s, one UTF-16 code unit.
SharpS == "U+00DF"

\* Lower-case mapping of one UTF-16 code unit. The sharp s is a lower-case
\* letter already and maps to itself.
toLowerChar(c) ==
    IF \E i \in 1..Len(UpperAZ) : UpperAZ[i] = c
    THEN <<LowerAZ[CHOOSE i \in 1..Len(UpperAZ) : UpperAZ[i] = c]>>
    ELSE <<c>>

\* Upper-case mapping of one UTF-16 code unit: the sharp s has the two-letter
\* upper case "SS" (Unicode SpecialCasing).
toUpperChar(c) ==
    IF \E i \in 1..Len(LowerAZ) : LowerAZ[i] = c
    THEN <<UpperAZ[CHOOSE i \in 1..Len(LowerAZ) : LowerAZ[i] = c]>>
    ELSE IF c = SharpS THEN <<"S", "S">>
    ELSE <<c>>

RECURSIVE toLowerCase(_)
toLowerCase(s) ==
    IF s = <<>> THEN <<>> ELSE toLowerChar(Head(s)) \o toLowerCase(Tail(s))

RECURSIVE toUpperCase(_)
toUpperCase(s) ==
    IF s = <<>> THEN <<>> ELSE toUpperChar(Head(s)) \o toUpperCase(Tail(s))

\* String.prototype.includes
includes(s, q) ==
    \E i \in 0..(Len(s) - Len(q)) : SubSeq(s, i + 1, i + Len(q)) = q

Digits == <<"0","1","2","3","4","5","6","7","8","9">>

\* Number.prototype.toString for a non-negative integer
RECURSIVE toString(_)
toString(n) ==
    IF n < 10 THEN <<Digits[n + 1]>>
    ELSE toString(n \div 10) \o <<Digits[(n % 10) + 1]>>

Range(seq) == {seq[i] : i \in 1..Len(seq)}

\* --------------------------------------------------------- the remote API
\* The detail endpoints the list endpoint can refer to, and the body each one
\* serves (id, name, types[].type.name, sprites, height,
\* weight). The second entity has no official artwork.
Urls == {"pokemon/1", "pokemon/25", "pokemon/122"}

ServerDetail(u) ==
    IF u = "pokemon/1" THEN
        [id |-> 1, name |-> <<"b","u","l","b","a","s","a","u","r">>,
         types |-> << [slot |-> 1, type |-> [name |-> <<"g","r","a","s","s">>]],
                      [slot |-> 2, type |-> [name |-> <<"p","o","i","s","o","n">>]] >>,
         sprites |-> [front_default |-> Str("sprites/1.png"),
                      other |-> [official_artwork |-> [front_default |-> Str("artwork/1.png")]]],
         height |-> 7, weight |-> 69]
    ELSE IF u = "pokemon/25" THEN
        [id |-> 25, name |-> <<"p","i","k","a","c","h","u">>,
         types |-> << [slot |-> 1, type |-> [name |-> <<"e","l","e","c","t","r","i","c">>]] >>,
         sprites |-> [front_default |-> Str("sprites/25.png"),
                      other |-> [official_artwork |-> [front_default |-> Null]]],
         height |-> 4, weight |-> 60]
    ELSE
        [id |-> 122, name |-> <<"M","r"," ","M","i","m","e">>,
         types |-> << [slot |-> 1, type |-> [name |-> <<"P","s","y","c","h","i","c">>]],
                      [slot |-> 2, type |-> [name |-> <<"f","a","i","r","y">>]] >>,
         sprites |-> [front_default |-> Str("sprites/122.png"),
                      other |-> [official_artwork |-> [front_default |-> Str("artwork/122.png")]]],
         height |-> 13, weight |-> 545]

\* A body that parses as JSON but is no list and no detail (an error page)
ErrorBody == [detail |-> "Not found."]

\* The sequences of at most n distinct elements of S
RECURSIVE SeqsNoRepeat(_, _)
SeqsNoRepeat(S, n) ==
    IF n = 0 THEN {<<>>}
    ELSE LET shorter == SeqsNoRepeat(S, n - 1)
         IN  shorter \cup UNION {{Append(t, x) : x \in S \ Range(t)} : t \in shorter}

\* The bodies the list endpoint can serve: { results: [{ url }, ...] }
ListBodies ==
    {[results |-> [i \in 1..Len(us) |-> [url |-> us[i]]]] : us \in SeqsNoRepeat(Urls, MaxRefs)}

\* ------------------------------------------------------ lines 31-38: normalize
\* a || b of JavaScript on string-or-null values
OrElse(a, b) == IF a = Null \/ a = Str("") THEN b ELSE a

Normalize(detail) ==
    [id     |-> detail.id,
     name   |-> detail.name,
     types  |-> [i \in 1..Len(detail.types) |-> detail.types[i].type.name],
     sprite |-> OrElse(detail.sprites.other.official_artwork.front_default,
                       detail.sprites.front_default),
     height |-> detail.height,
     weight |-> detail.weight]

\* detail.types.map and detail.sprites.other[...] throw a TypeError on a body
\* without these fields
NormalizeThrows(detail) == ~({"types", "sprites"} \subseteq DOMAIN detail)

\* Mutant of matches: the types are not searched
matchesNoTypes(p, query) ==
    \/ includes(toLowerCase(p.name), query)
    \/ includes(toString(p.id), query)

\* Mutant of filter: the query is trimmed before the emptiness test
filterTrimmed(L, q) ==
    IF \A i \in 1..Len(q) : q[i] = " " THEN L
    ELSE LET query == toLowerCase(q)
         IN  SelectSeq(L, LAMBDA p :
                 \/ includes(toLowerCase(p.name), query)
                 \/ includes(toString(p.id), query)
                 \/ \E i \in 1..Len(p.types) : includes(toLowerCase(p.types[i]), query))

\* Mutant of filter: the query is not lower-cased
filterExactCase(L, q) ==
    IF q = <<>> THEN L
    ELSE SelectSeq(L, LAMBDA p :
             \/ includes(toLowerCase(p.name), q)
             \/ includes(toString(p.id), q)
             \/ \E i \in 1..Len(p.types) : includes(toLowerCase(p.types[i]), q))

\* ---------------------------------------------- lines 53-62: filteredPokemon
matches(p, query) ==
    \/ includes(toLowerCase(p.name), query)
    \/ includes(toString(p.id), query)
    \/ \E i \in 1..Len(p.types) : includes(toLowerCase(p.types[i]), query)

filter(L, q) ==
    IF q = <<>> THEN L
    ELSE LET query == toLowerCase(q)
             keep(p) == matches(p, query)
         IN  SelectSeq(L, keep)

filteredPokemon == filter(pokemon, search)

\* line 160: the condition of the empty-state block
emptyStateShown == ~loading /\ Len(filteredPokemon) = 0

\* line 115 / 122: the cards in the grid
cards == IF loading THEN {} ELSE Range(filteredPokemon)

\* line 166: the overlay is rendered
overlayShown == selectedPokemon # Null

\* ------------------------------------------------------------ input sets
\* The characters a query is typed from
QueryChars == {"s", "S", SharpS, "M", " ", "2"}

\* The values one edit of the text input can leave in it: a character typed
\* at the end, the last character deleted, or the input cleared
Edits(q) ==
    {Append(q, c) : c \in QueryChars}
        \cup (IF q = <<>> THEN {} ELSE {SubSeq(q, 1, Len(q) - 1), <<>>})

\* --------------------------------------------------------------- Init
\* The state of the first render, before the effect runs
Init ==
    /\ pokemon = <<>>
    /\ search = <<>>
    /\ loading = TRUE
    /\ selectedPokemon = Null
    /\ pc = "mount"
    /\ list = "idle"
    /\ refs = <<>>
    /\ status = <<>>
    /\ values = <<>>
    /\ arrival = <<>>
    /\ errorLog = 0
    /\ listRequests = 0
    /\ pokemonWrites = 0
    /\ prevSelected = Null

ui == <<search, selectedPokemon, prevSelected>>
fanout == <<refs, status, values, arrival>>

\* ------------------------------------------------- lines 21-51: the loader
\* Mutant of catch: the entities fetched so far are kept
catchStoresPartial ==
    /\ errorLog' = errorLog + 1
    /\ loading' = FALSE
    /\ pc' = "done"
    /\ pokemon' = SelectSeq(values, LAMBDA v : v # Null)
    /\ pokemonWrites' = pokemonWrites + 1

\* lines 44-47: the catch block
catch ==
    /\ errorLog' = errorLog + 1
    /\ loading' = FALSE
    /\ pc' = "done"
    /\ UNCHANGED <<pokemon, pokemonWrites>>

\* Mutant of afterAll: the loading flag is not cleared
afterAllKeepsLoading(pokemonDetails) ==
    /\ pokemon' = pokemonDetails
    /\ pokemonWrites' = pokemonWrites + 1
    /\ pc' = "done"
    /\ UNCHANGED <<errorLog, loading>>

\* lines 42-43: the statements after the await of Promise.all
afterAll(pokemonDetails) ==
    /\ pokemon' = pokemonDetails
    /\ pokemonWrites' = pokemonWrites + 1
    /\ loading' = FALSE
    /\ pc' = "done"
    /\ UNCHANGED errorLog

\* Mutant of storeValue: the value goes to the first free index (arrival order)
storeValueArrival(vals, i, v) ==
    LET k == CHOOSE k \in DOMAIN vals :
                 vals[k] = Null /\ \A j \in 1..(k - 1) : vals[j] # Null
    IN  [vals EXCEPT ![k] = v]

\* line 27: Promise.all stores the value of its i-th promise at index i
storeValue(vals, i, v) == [vals EXCEPT ![i] = v]

\* Mutant of useEffect: without the dependency list the effect runs after
\* every render
useEffectEveryRender ==
    /\ pc' = "fetchList"
    /\ list' = "fetch"
    /\ listRequests' = listRequests + 1
    /\ UNCHANGED <<pokemon, loading, errorLog, pokemonWrites, refs, status, values,
                   arrival, search, selectedPokemon, prevSelected>>

\* lines 21-24, 50-51: the effect of the first render, while it is pending,
\* is run before an update is processed: it calls fetchPokemon, which issues
\* the list request. With the empty dependency list no later render has one
flushEffect ==
    IF pc = "mount"
    THEN /\ pc' = "fetchList"
         /\ list' = "fetch"
         /\ listRequests' = listRequests + 1
    ELSE UNCHANGED <<pc, list, listRequests>>

\* lines 21, 50-51: the effect of the empty dependency list runs once, after
\* the first render, and calls fetchPokemon, which issues the list request
useEffect ==
    /\ pc = "mount"
    /\ flushEffect
    /\ UNCHANGED <<pokemon, loading, errorLog, pokemonWrites, fanout, ui>>

\* line 24: the list fetch resolves with a response
listFetchResolves ==
    /\ pc = "fetchList"
    /\ pc' = "jsonList"
    /\ list' = "json"
    /\ UNCHANGED <<pokemon, loading, errorLog, pokemonWrites, listRequests, fanout, ui>>

\* line 24: the list fetch rejects
listFetchRejects ==
    /\ pc = "fetchList"
    /\ list' = "rejected"
    /\ catch
    /\ UNCHANGED <<listRequests, fanout, ui>>

\* lines 25-43: response.json() resolves with data; the map of line 28 starts one
\* detail fetch per reference, and Promise.all of no promise resolves at once.
\* data.results.map throws a TypeError on a body without results
listJsonResolves(data) ==
    /\ pc = "jsonList"
    /\ IF "results" \notin DOMAIN data
       THEN /\ list' = "rejected"
            /\ catch
            /\ UNCHANGED fanout
       ELSE /\ list' = "fulfilled"
            /\ refs' = data.results
            /\ status' = [i \in 1..Len(data.results) |-> "fetch"]
            /\ values' = [i \in 1..Len(data.results) |-> Null]
            /\ UNCHANGED arrival
            /\ IF Len(data.results) = 0
               THEN afterAll(<<>>)
               ELSE /\ pc' = "all"
                    /\ UNCHANGED <<pokemon, loading, errorLog, pokemonWrites>>
    /\ UNCHANGED <<listRequests, ui>>

\* line 25: response.json() rejects
listJsonRejects ==
    /\ pc = "jsonList"
    /\ list' = "rejected"
    /\ catch
    /\ UNCHANGED <<listRequests, fanout, ui>>

\* The i-th promise of Promise.all rejects: Promise.all rejects on its first
\* rejection, and the await of line 27 throws into the catch block; a later
\* rejection finds Promise.all settled
detailRejects(i) ==
    /\ status' = [status EXCEPT ![i] = "rejected"]
    /\ IF pc = "all"
       THEN catch
       ELSE UNCHANGED <<pokemon, loading, errorLog, pokemonWrites, pc>>
    /\ UNCHANGED <<list, refs, values, arrival, listRequests, ui>>

\* line 29: the fetch of reference i resolves with a response
detailFetchResolves(i) ==
    /\ i \in DOMAIN status
    /\ status[i] = "fetch"
    /\ status' = [status EXCEPT ![i] = "json"]
    /\ UNCHANGED <<pokemon, loading, errorLog, pokemonWrites, pc, list, refs, values,
                   arrival, listRequests, ui>>

\* line 29: the fetch of reference i rejects
detailFetchRejects(i) ==
    /\ i \in DOMAIN status
    /\ status[i] = "fetch"
    /\ detailRejects(i)

\* lines 30-43: res.json() of reference i resolves with detail; the callback
\* returns the normalized entity, and Promise.all resolves with its array once
\* every promise has
detailJsonResolves(i, detail) ==
    /\ i \in DOMAIN status
    /\ status[i] = "json"
    /\ IF NormalizeThrows(detail)
       THEN detailRejects(i)
       ELSE /\ status' = [status EXCEPT ![i] = "fulfilled"]
            /\ values' = storeValue(values, i, Normalize(detail))
            /\ arrival' = Append(arrival, i)
            /\ IF pc = "all" /\ \A j \in DOMAIN status : status'[j] = "fulfilled"
               THEN afterAll(values')
               ELSE UNCHANGED <<pokemon, loading, errorLog, pokemonWrites, pc>>
            /\ UNCHANGED <<list, refs, listRequests, ui>>

\* line 30: res.json() of reference i rejects
detailJsonRejects(i) ==
    /\ i \in DOMAIN status
    /\ status[i] = "json"
    /\ detailRejects(i)

\* The body the server sends for reference i, or an error page
DetailBodies(i) == {ServerDetail(refs[i].url), ErrorBody}

loader == <<pokemon, loading, pc, list, refs, status, values, arrival, errorLog,
            listRequests, pokemonWrites>>

\* ------------------------------------------------------------ the handlers
\* Mutant of setSearch: typing closes the overlay
setSearchClosesOverlay(q) ==
    /\ search' = q
    /\ selectedPokemon' = Null
    /\ flushEffect
    /\ UNCHANGED <<pokemon, loading, refs, status, values, arrival, errorLog,
                   pokemonWrites, prevSelected>>

\* line 105: onChange of the text input. An input event that arrives while
\* the effect of the first render is pending runs that effect in the same step
setSearch(q) ==
    /\ search' = q
    /\ flushEffect
    /\ UNCHANGED <<pokemon, loading, refs, status, values, arrival, errorLog,
                   pokemonWrites, selectedPokemon, prevSelected>>

\* Mutant of cardClick: a card opens the overlay only when none is open
cardClickWhenClosed(p) ==
    /\ p \in cards
    /\ selectedPokemon = Null
    /\ selectedPokemon' = p
    /\ prevSelected' = selectedPokemon
    /\ UNCHANGED <<pokemon, loading, pc, list, refs, status, values, arrival, errorLog,
                   listRequests, pokemonWrites, search>>

\* line 125: onClick of the card of p
cardClick(p) ==
    /\ p \in cards
    /\ selectedPokemon' = p
    /\ prevSelected' = selectedPokemon
    /\ UNCHANGED <<loader, search>>

\* line 169: onClick of the backdrop
backdropClick ==
    /\ overlayShown
    /\ selectedPokemon' = Null
    /\ prevSelected' = selectedPokemon
    /\ UNCHANGED <<loader, search>>

\* line 176: onClick of the close button (line 173 stops it at the surface)
closeClick ==
    /\ overlayShown
    /\ selectedPokemon' = Null
    /\ prevSelected' = selectedPokemon
    /\ UNCHANGED <<loader, search>>

\* ------------------------------------------------------------------ Next
listResponds ==
    \/ listFetchResolves
    \/ listFetchRejects
    \/ \E data \in ListBodies \cup {ErrorBody} : listJsonResolves(data)
    \/ listJsonRejects

detailResponds(i) ==
    \/ detailFetchResolves(i)
    \/ detailFetchRejects(i)
    \/ /\ i \in DOMAIN refs
       /\ \E detail \in DetailBodies(i) : detailJsonResolves(i, detail)
    \/ detailJsonRejects(i)

Next ==
    \/ useEffect
    \/ listFetchResolves
    \/ listFetchRejects
    \/ \E data \in ListBodies \cup {ErrorBody} : listJsonResolves(data)
    \/ listJsonRejects
    \/ \E i \in 1..MaxRefs : detailFetchResolves(i)
    \/ \E i \in 1..MaxRefs : detailFetchRejects(i)
    \/ \E i \in 1..MaxRefs :
          /\ i \in DOMAIN refs
          /\ \E detail \in DetailBodies(i) : detailJsonResolves(i, detail)
    \/ \E i \in 1..MaxRefs : detailJsonRejects(i)
    \/ \E q \in Edits(search) : Len(q) <= MaxQueryLen /\ setSearch(q)
    \/ \E p \in Range(pokemon) : cardClick(p)
    \/ backdropClick
    \/ closeClick

Spec == Init /\ [][Next]_vars

\* The effect runs after the first render, and every issued request is
\* answered: it resolves or it rejects
FairSpec ==
    /\ Spec
    /\ WF_vars(useEffect)
    /\ WF_vars(listResponds)
    /\ \A i \in 1..MaxRefs : WF_vars(detailResponds(i))

\* ================================================================ claims
\* The list request and every detail request succeeded
AllSucceeded ==
    list = "fulfilled" /\ \A i \in DOMAIN status : status[i] = "fulfilled"

\* The list request failed, or at least one detail request did
LoadFailed ==
    list = "rejected" \/ \E i \in DOMAIN status : status[i] = "rejected"

\* C1: when the list request and all N detail requests have succeeded, in
\* whatever order they completed, the canonical list has N elements and its
\* i-th element is the entity normalized from the detail response of the i-th
\* reference.
C1_ReferenceOrder ==
    AllSucceeded =>
        /\ Len(pokemon) = Len(refs)
        /\ \A i \in 1..Len(refs) : pokemon[i] = Normalize(ServerDetail(refs[i].url))

\* Three references, all fulfilled, the second one first and the first one last
C1_Witness ==
    /\ AllSucceeded
    /\ Len(refs) = 3
    /\ arrival = <<2, 3, 1>>
    /\ Len(pokemon) = 3

\* C2: once the list request or a detail request has failed, the canonical
\* list is empty and never written, the loading flag is false, no card is
\* rendered and the failure has been logged exactly once, whatever the other
\* detail requests do before or after; and nothing is logged more than once.
C2_AllOrNothing ==
    /\ errorLog <= 1
    /\ LoadFailed =>
          /\ pokemon = <<>>
          /\ pokemonWrites = 0
          /\ loading = FALSE
          /\ cards = {}
          /\ errorLog = 1
    /\ errorLog = 1 => LoadFailed

\* Two detail requests failed and a third one was fulfilled after the first failure
C2_Witness ==
    /\ LoadFailed
    /\ pc = "done"
    /\ \E i, j, k \in DOMAIN status :
          /\ i # j
          /\ status[i] = "rejected"
          /\ status[j] = "rejected"
          /\ status[k] = "fulfilled"
    /\ errorLog = 1

\* a is a substring of b
Substring(a, b) ==
    \E i \in 1..(Len(b) + 1) : \E j \in (i - 1)..Len(b) : SubSeq(b, i, j) = a

\* The inclusion test of the claim: the lower-cased query is a substring of
\* the lower-cased name, of the decimal id, or of a lower-cased category
Included(p, q) ==
    \/ Substring(toLowerCase(q), toLowerCase(p.name))
    \/ Substring(toLowerCase(q), toString(p.id))
    \/ \E c \in Range(p.types) : Substring(toLowerCase(q), toLowerCase(c))

\* The k-th smallest element of a set of numbers
Kth(I, k) == CHOOSE i \in I : Cardinality({j \in I : j <= i}) = k

\* F is L restricted to the indices in I, in the order of L
IsRestriction(F, L, I) ==
    /\ Len(F) = Cardinality(I)
    /\ \A k \in 1..Len(F) : F[k] = L[Kth(I, k)]

\* C3: for a non-empty query the filtered list is the canonical list restricted
\* to exactly the entities that pass the inclusion test, in the order of the
\* canonical list.
C3_FilterIsMatchingSubsequence ==
    search # <<>> =>
        IsRestriction(filteredPokemon, pokemon,
                      {i \in 1..Len(pokemon) : Included(pokemon[i], search)})

\* A query that keeps the first and the third of three entities
C3_Witness ==
    /\ search # <<>>
    /\ Len(pokemon) = 3
    /\ filteredPokemon = <<pokemon[1], pokemon[3]>>

\* q consists of whitespace only and is not empty
Blank(q) == q # <<>> /\ \A i \in 1..Len(q) : q[i] = " "

\* C4: for the empty query the filtered list is the canonical list; a query of
\* whitespace only is matched as a literal substring of the name, the decimal
\* id or a category.
C4_EmptyAndBlankQuery ==
    /\ search = <<>> => filteredPokemon = pokemon
    /\ Blank(search) =>
          IsRestriction(filteredPokemon, pokemon,
                        {i \in 1..Len(pokemon) :
                            \/ Substring(search, toLowerCase(pokemon[i].name))
                            \/ Substring(search, toString(pokemon[i].id))
                            \/ \E c \in Range(pokemon[i].types) :
                                  Substring(search, toLowerCase(c))})

\* A query of one space keeps one of three entities
C4_Witness ==
    /\ search = <<" ">>
    /\ Len(pokemon) = 3
    /\ Len(filteredPokemon) = 1

\* C5 as stated: the filtered list is the same for the query and for the
\* upper-cased query, for every query.
C5_UpperCaseQuerySameResult ==
    filter(pokemon, search) = filter(pokemon, toUpperCase(search))

\* A character of ASCII is written as itself
IsAscii(q) == \A i \in 1..Len(q) : Len(q[i]) = 1

\* C5 amended: the filtered list is the same for the query and for the
\* upper-cased query, for every query of ASCII characters.
C5_AsciiUpperCaseQuerySameResult ==
    IsAscii(search) => filter(pokemon, search) = filter(pokemon, toUpperCase(search))

\* A lower-case ASCII query that keeps some but not all of three entities
C5_Witness ==
    /\ search = <<"s", "s">>
    /\ Len(pokemon) = 3
    /\ Len(filter(pokemon, toUpperCase(search))) = 1

\* C6: the selection starts Closed; in every state a click on a rendered card
\* p can be taken and yields Open(p), whether the state is Closed or Open(e),
\* and in Open(e) both dismissals can be taken and yield Closed; the selection
\* changes by no other step, and it is a single entity or none.
C6_SelectState ==
    /\ \A p \in cards : ENABLED (cardClick(p) /\ selectedPokemon' = p)
    /\ overlayShown =>
          /\ ENABLED (backdropClick /\ selectedPokemon' = Null)
          /\ ENABLED (closeClick /\ selectedPokemon' = Null)
    /\ selectedPokemon = Null \/ selectedPokemon \in Range(pokemon)

C6_SelectStep ==
    selectedPokemon' # selectedPokemon =>
        \/ selectedPokemon # Null /\ selectedPokemon' = Null
                                  /\ prevSelected' = selectedPokemon
        \/ selectedPokemon' \in cards /\ prevSelected' = selectedPokemon

C6_SelectionMachine ==
    /\ selectedPokemon = Null
    /\ [](C6_SelectState)
    /\ [][C6_SelectStep]_vars

\* Open(e2), reached by a click on the card of e2 in the state Open(e)
C6_Witness ==
    /\ selectedPokemon # Null
    /\ prevSelected # Null
    /\ prevSelected # selectedPokemon

\* C7 as stated: the empty-state message is shown exactly when loading is
\* complete, the query is not empty and the filtered list is empty.
C7_EmptyStateOnlyForQuery ==
    emptyStateShown <=> (~loading /\ search # <<>> /\ Len(filteredPokemon) = 0)

\* C8: the list request is issued once, by the effect, and never again; the
\* canonical list is written at most once; a step that changes the query or
\* the selection leaves the canonical list, its write count and the loading
\* flag as they are, and issues no list request, except that the first such
\* step runs the effect with it when the effect is still pending.
C8_LoadState ==
    /\ listRequests = (IF pc = "mount" THEN 0 ELSE 1)
    /\ pokemonWrites <= 1
    /\ pc # "mount" => ~ENABLED useEffect

C8_UiStep ==
    (search' # search \/ selectedPokemon' # selectedPokemon \/ prevSelected' # prevSelected)
        => /\ UNCHANGED <<pokemon, pokemonWrites, loading>>
           /\ pc # "mount" => UNCHANGED <<listRequests, pc, list>>

C8_OneLoadCycle ==
    /\ [](C8_LoadState)
    /\ [][C8_UiStep]_vars

\* The list was loaded, then the query changed, an entity was selected and dismissed
C8_Witness ==
    /\ pokemonWrites = 1
    /\ listRequests = 1
    /\ search # <<>>
    /\ selectedPokemon = Null
    /\ prevSelected # Null

\* C9: the loading flag is true at the start and exactly until the load cycle
\* completes; while it is true the canonical list is empty; once false it
\* stays false; and, every issued request being answered, it becomes false.
C9_LoadingState ==
    /\ loading <=> pc # "done"
    /\ loading => pokemon = <<>>

C9_LoadingFlag ==
    /\ loading = TRUE
    /\ [](C9_LoadingState)
    /\ [][~loading => ~loading']_vars
    /\ <>(~loading)

\* The load cycle completed with three entities
C9_Witness ==
    /\ ~loading
    /\ Len(pokemon) = 3
    /\ pc = "done"

\* C10: the selected entity is none or an element of the canonical list, and
\* none while the loading flag is true; a query change leaves the selection
\* as it is.
C10_SelectedState ==
    /\ selectedPokemon = Null \/ selectedPokemon \in Range(pokemon)
    /\ loading => selectedPokemon = Null

C10_SelectionValid ==
    /\ [](C10_SelectedState)
    /\ [][search' # search => selectedPokemon' = selectedPokemon]_vars

\* An entity is selected and the present query filters it out
C10_Witness ==
    /\ selectedPokemon # Null
    /\ search # <<>>
    /\ selectedPokemon \notin Range(filteredPokemon)
    /\ selectedPokemon \in Range(pokemon)

====
